---- MODULE Spec2Model ----
(***************************************************************************)
(* A model of main.py: the server list, the validation cache with its      *)
(* 30-minute freshness window, the per-server metadata store and the       *)
(* interactive loop  select server -> select model -> prompt.  The three   *)
(* files outlive the process, so a run starts from whatever earlier runs   *)
(* (or the operator's editor) left on disk.                                *)
(***************************************************************************)
EXTENDS Integers, Sequences, FiniteSets, TLC

CACHE_VALIDITY_MINUTES == 30

\* Longest server list file, in lines, that a run starts from.
MaxLines == 2

\* Clock readings, in minutes, placed around the freshness boundary.
TimePoints == {0, CACHE_VALIDITY_MINUTES - 1, CACHE_VALIDITY_MINUTES}

(***************************************************************************)
(* Addresses.  A string is kept as its scheme prefix and the rest, which   *)
(* is all that str.startswith(("http://", "https://")) looks at.           *)
(***************************************************************************)
NoAddr == [scheme |-> "", host |-> ""]
AddrA == [scheme |-> "", host |-> "a"]
AddrB == [scheme |-> "http://", host |-> "b"]
HasScheme(s) == s.scheme \in {"http://", "https://"}

WithScheme(s) == IF HasScheme(s) THEN s ELSE [s EXCEPT !.scheme = "http://"]

SeqsUpTo(S, n) == UNION {[1..k -> S] : k \in 0..n}

(***************************************************************************)
(* srv_list.txt: a sequence of lines; a line is an address with or without *)
(* surrounding whitespace, or blank.                                       *)
(***************************************************************************)
Lines == {[pad |-> TRUE, addr |-> AddrA], [pad |-> FALSE, addr |-> AddrB],
          [pad |-> TRUE, addr |-> NoAddr]}

load_servers(file) ==
    LET kept == SelectSeq(file.lines, LAMBDA l : l.addr # NoAddr)
    IN  [k \in 1..Len(kept) |-> kept[k].addr]

ServerFileAfterLoad(file) ==
    IF file.exists THEN file ELSE [exists |-> TRUE, lines |-> <<>>]

save_servers(list) ==
    [exists |-> TRUE,
     lines |-> [k \in 1..Len(list) |-> [pad |-> FALSE, addr |-> list[k]]]]

(***************************************************************************)
(* cache/server_status.csv.  A row holds three texts; the in-memory cache  *)
(* is a dict in insertion order, kept as a sequence of entries.            *)
(***************************************************************************)
isoformat(t) == <<"iso", t>>
BadTimestamp == <<"bad", 0>>
IsIso(text) == text[1] = "iso"
fromisoformat(text) == text[2]

\* A verdict written in JSON's spelling.
BoolTextLower(b) == IF b THEN "true" ELSE "false"

\* str(bool), as csv.DictWriter writes the verdict (line 89).
BoolText(b) == IF b THEN "True" ELSE "False"

CacheIndex(c, server) ==
    IF \E k \in 1..Len(c) : c[k].server = server
    THEN CHOOSE k \in 1..Len(c) : c[k].server = server
    ELSE 0

\* A put that keeps the record an address already has.
CachePutKeepsFirst(c, server, valid, timestamp) ==
    IF CacheIndex(c, server) # 0 THEN c
    ELSE Append(c, [server |-> server, valid |-> valid, timestamp |-> timestamp])

\* cache[server] = {...} (lines 124-127) and the same in the loading loop.
CachePut(c, server, valid, timestamp) ==
    LET e == [server |-> server, valid |-> valid, timestamp |-> timestamp]
        k == CacheIndex(c, server)
    IN  IF k = 0 THEN Append(c, e) ELSE [c EXCEPT ![k] = e]

\* csv.DictReader raises KeyError on a file without the expected columns,
\* datetime.fromisoformat raises ValueError on an unparseable timestamp.
LoadValidationCacheRaises(file) ==
    \/ file.state = "malformed"
    \/ /\ file.state = "ok"
       /\ \E k \in 1..Len(file.rows) : ~IsIso(file.rows[k].timestamp)

RECURSIVE RowsToCache(_)
RowsToCache(rows) ==
    IF rows = <<>> THEN <<>>
    ELSE LET r == rows[Len(rows)]
         IN  CachePut(RowsToCache(SubSeq(rows, 1, Len(rows) - 1)), r.server,
                      r.valid = "True", fromisoformat(r.timestamp))

_load_validation_cache(file) ==
    IF file.state = "missing" THEN <<>> ELSE RowsToCache(file.rows)

\* A save that keeps only the reachable servers' records.
SaveOnlyValid(c) ==
    LET kept == SelectSeq(c, LAMBDA e : e.valid)
    IN  [state |-> "ok",
         rows |-> [k \in 1..Len(kept) |->
                     [server |-> kept[k].server, valid |-> BoolText(kept[k].valid),
                      timestamp |-> isoformat(kept[k].timestamp)]]]

\* A save that stamps every row with the newest check time of the cache.
SaveRestamped(c) ==
    LET times == {c[k].timestamp : k \in 1..Len(c)}
        newest == CHOOSE t \in times : \A u \in times : u <= t
    IN  [state |-> "ok",
         rows |-> [k \in 1..Len(c) |->
                     [server |-> c[k].server, valid |-> BoolText(c[k].valid),
                      timestamp |-> isoformat(newest)]]]

_save_validation_cache(c) ==
    [state |-> "ok",
     rows |-> [k \in 1..Len(c) |->
                 [server |-> c[k].server, valid |-> BoolText(c[k].valid),
                  timestamp |-> isoformat(c[k].timestamp)]]]

\* A freshness test that trusts any record, whatever its age.
IsFreshAnyAge(c, server, t) == CacheIndex(c, server) # 0

\* The freshness test of the validation pass (line 111).
IsFresh(c, server, t) ==
    LET k == CacheIndex(c, server)
    IN  k # 0 /\ (t - c[k].timestamp) < CACHE_VALIDITY_MINUTES

\* The fallback's test with a record of exactly 30 minutes still trusted.
FallbackKeepsAtBoundary(c, server, t) ==
    LET k == CacheIndex(c, server)
    IN  /\ (IF k = 0 THEN TRUE ELSE c[k].valid)
        /\ (t - (IF k = 0 THEN t ELSE c[k].timestamp)) <= CACHE_VALIDITY_MINUTES

\* The test of the declined-validation fallback (lines 161-162): a missing
\* record reads as valid, with the current time as its timestamp.
FallbackKeeps(c, server, t) ==
    LET k == CacheIndex(c, server)
    IN  /\ (IF k = 0 THEN TRUE ELSE c[k].valid)
        /\ (t - (IF k = 0 THEN t ELSE c[k].timestamp)) < CACHE_VALIDITY_MINUTES

FallbackValidServers(list, c, t) ==
    SelectSeq(list, LAMBDA s : FallbackKeeps(c, s, t))

\* What the health probe's request can come to: an exception of the
\* transport, a timeout after 5 seconds, or a response with a status.
ProbeOutcomes ==
    {[kind |-> "error", status |-> 0], [kind |-> "timeout", status |-> 0],
     [kind |-> "response", status |-> 200], [kind |-> "response", status |-> 204],
     [kind |-> "response", status |-> 404]}

\* No probe has returned since the loop moved on.
NoOutcome == [kind |-> "none", status |-> 0]

\* A probe that takes every status of the 2xx class for success.
validate_server_2xx(outcome) ==
    outcome.kind = "response" /\ outcome.status \in 200..299

\* validate_server, lines 93-101: True on status 200, False on any other
\* status and on any exception.
validate_server(outcome) == outcome.kind = "response" /\ outcome.status = 200

(***************************************************************************)
(* cache/server_metadata.json.  The store is a dict of dicts: a function   *)
(* from the keys present to records of the fields present.                 *)
(***************************************************************************)
EmptyDict == <<>>

\* A save that leaves the cached catalogs out of the document.
SaveWithoutModels(data) ==
    [state |-> "ok",
     data |-> [s \in DOMAIN data |->
                 [f \in DOMAIN data[s] \ {"models"} |-> data[s][f]]]]

\* save (lines 30-31): the whole store as one JSON document.
json_dumps(data) == [state |-> "ok", data |-> data]

\* json.loads raises on a file that is not a JSON document.
LoadMetadataRaises(file) == file.state = "malformed"

_load_metadata(file) == IF file.state = "ok" THEN file.data ELSE EmptyDict

Entry(data, server) == IF server \in DOMAIN data THEN data[server] ELSE EmptyDict

get_note(data, server) ==
    LET e == Entry(data, server)
    IN  IF "note" \in DOMAIN e THEN e["note"] ELSE ""

get_cached_models(data, server) ==
    LET e == Entry(data, server)
    IN  IF "models" \in DOMAIN e THEN e["models"] ELSE <<>>

SetField(e, field, value) ==
    [f \in DOMAIN e \cup {field} |-> IF f = field THEN value ELSE e[f]]

SetEntry(data, server, e) ==
    [s \in DOMAIN data \cup {server} |-> IF s = server THEN e ELSE data[s]]

set_note(data, server, note) ==
    SetEntry(data, server, SetField(Entry(data, server), "note", note))

cache_models(data, server, list, t) ==
    SetEntry(data, server,
             SetField(SetField(Entry(data, server), "models", list),
                      "models_cached_at", isoformat(t)))

Notes == {"fast"}

(***************************************************************************)
(* The catalog endpoint GET {base_url}/v1/models of each server.           *)
(***************************************************************************)
ServerModels(url) ==
    IF url.host = "a" THEN <<[id |-> "a1"], [id |-> "a2"]>>
    ELSE IF url.host = "b" THEN <<[id |-> "b1"]>>
    ELSE <<>>

NoResponse == [kind |-> "none", status |-> 0, body |-> "none", data |-> <<>>]

\* body: "data" a document with a data field, "nodata" a document without
\* one, "malformed" not a JSON document.
CatalogResponses(url) ==
    {[kind |-> "error", status |-> 0, body |-> "none", data |-> <<>>],
     [kind |-> "timeout", status |-> 0, body |-> "none", data |-> <<>>],
     [kind |-> "response", status |-> 404, body |-> "none", data |-> <<>>],
     [kind |-> "response", status |-> 200, body |-> "malformed", data |-> <<>>],
     [kind |-> "response", status |-> 200, body |-> "nodata", data |-> <<>>],
     [kind |-> "response", status |-> 200, body |-> "data", data |-> <<>>],
     [kind |-> "response", status |-> 200, body |-> "data", data |-> ServerModels(url)]}

\* get_models lets the transport's exceptions and response.json()'s pass.
GetModelsRaises(r) ==
    \/ r.kind \in {"error", "timeout"}
    \/ r.kind = "response" /\ r.status = 200 /\ r.body = "malformed"

\* data.get("data", [])
FetchedModels(r) == IF r.body = "data" THEN r.data ELSE <<>>

\* Prompt texts, and str.lower on them.
Prompts == {"b", "s", "B", "hello"}

Lower(p) == IF p = "B" THEN "b" ELSE IF p = "S" THEN "s" ELSE p

NoRequest == [url |-> NoAddr, model |-> "None", prompt |-> ""]

(***************************************************************************)
(* State.  pc is the place the process waits at: "start" before main runs, *)
(* "stopped" after the process has ended.                                  *)
(*   files:      serverFile, cacheFile, metaFile                           *)
(*   ServerManager: servers, valid_servers, metadata (its ServerMetadata)  *)
(*   validate_all_servers: cache, current_time, idx (the for loop's        *)
(*                 position in self.servers), invalid_servers; they keep   *)
(*                 their last values once the pass has returned, and idx   *)
(*                 is 0 in a run that has not started a pass               *)
(*   LLMClient:  base_url, selected_model; main: models                    *)
(*   network:    probes (the addresses probed in the current pass),        *)
(*               last_probe (what the request of the probe that has just   *)
(*               returned came to, until the loop moves on), response (the *)
(*               last catalog response), sent (the generation request in   *)
(*               flight)                                                   *)
(*   input:      the last line Prompt.ask read from the operator           *)
(*   err:        how the run ended, "none" while it runs                   *)
(***************************************************************************)
VARIABLES pc, err, now, serverFile, cacheFile, metaFile, servers,
          valid_servers, metadata, cache, current_time, idx, invalid_servers,
          base_url, selected_model, models, probes, last_probe, response, sent,
          input

files == <<serverFile, cacheFile, metaFile>>
manager == <<servers, valid_servers, metadata>>
pass == <<cache, current_time, idx, invalid_servers, probes, last_probe>>
client == <<base_url, selected_model, models>>
network == <<response, sent>>
vars == <<pc, err, now, files, manager, pass, client, network, input>>

InitServerFiles ==
    {[exists |-> FALSE, lines |-> <<>>]}
    \cup {[exists |-> TRUE, lines |-> l] : l \in SeqsUpTo(Lines, MaxLines)}

\* Rows an earlier run can have left for one address, and one whose
\* timestamp does not parse.
InitRows(a) ==
    {<<>>,
     <<[server |-> a, valid |-> "True", timestamp |-> isoformat(0)]>>,
     <<[server |-> a, valid |-> "False", timestamp |-> isoformat(0)]>>}
     \cup (IF a = AddrA
           THEN {<<[server |-> a, valid |-> "True", timestamp |-> BadTimestamp]>>}
           ELSE {})

InitCacheFiles ==
    {[state |-> "missing", rows |-> <<>>], [state |-> "malformed", rows |-> <<>>]}
    \cup {[state |-> "ok", rows |-> ra \o rb] :
            ra \in InitRows(AddrA), rb \in InitRows(AddrB)}

InitMetaFiles ==
    {[state |-> "missing", data |-> EmptyDict],
     [state |-> "malformed", data |-> EmptyDict],
     json_dumps(EmptyDict)}

\* No process: nothing is in memory.
NoProcess ==
    /\ servers = <<>>
    /\ valid_servers = <<>>
    /\ metadata = EmptyDict
    /\ cache = <<>>
    /\ current_time = 0
    /\ idx = 0
    /\ invalid_servers = <<>>
    /\ probes = <<>>
    /\ last_probe = NoOutcome
    /\ base_url = NoAddr
    /\ selected_model = "None"
    /\ models = <<>>

Init ==
    /\ pc = "start"
    /\ err = "none"
    /\ now = 0
    /\ serverFile \in InitServerFiles
    /\ cacheFile \in InitCacheFiles
    /\ metaFile \in InitMetaFiles
    /\ NoProcess
    /\ response = NoResponse
    /\ sent = NoRequest
    /\ input = ""

\* The process ends: by return from main, by an exception nobody catches,
\* or by KeyboardInterrupt.
Exit(how) ==
    /\ pc' = "stopped"
    /\ err' = how
    /\ servers' = <<>>
    /\ valid_servers' = <<>>
    /\ metadata' = EmptyDict
    /\ cache' = <<>>
    /\ current_time' = 0
    /\ idx' = 0
    /\ invalid_servers' = <<>>
    /\ probes' = <<>>
    /\ last_probe' = NoOutcome
    /\ base_url' = NoAddr
    /\ selected_model' = "None"
    /\ models' = <<>>

\* main, lines 266-269: ServerManager() reads the server list (creating the
\* file when it is missing) and the metadata, LLMClient() starts with no
\* server and no model, get_available_servers asks whether to validate.
Startup ==
    /\ pc = "start"
    /\ serverFile' = ServerFileAfterLoad(serverFile)
    /\ IF LoadMetadataRaises(metaFile)
       THEN Exit("load_metadata")
       ELSE /\ pc' = "AskValidate"
            /\ err' = "none"
            /\ servers' = load_servers(serverFile')
            /\ valid_servers' = load_servers(serverFile')
            /\ metadata' = _load_metadata(metaFile)
            /\ base_url' = NoAddr
            /\ selected_model' = "None"
            /\ UNCHANGED <<models, pass>>
    /\ UNCHANGED <<now, cacheFile, metaFile, network, input>>

\* get_available_servers, lines 150-164, to the first place it waits at:
\* on "y" the first lines of validate_all_servers (104-107), otherwise the
\* fallback on the cached records (157-163).
AnswerValidate(answer) ==
    /\ pc = "AskValidate"
    /\ input' = answer
    /\ IF LoadValidationCacheRaises(cacheFile)
       THEN Exit("load_validation_cache")
       ELSE IF answer = "y"
       THEN /\ pc' = "PassLoop"
            /\ cache' = _load_validation_cache(cacheFile)
            /\ current_time' = now
            /\ valid_servers' = <<>>
            /\ invalid_servers' = <<>>
            /\ idx' = 1
            /\ probes' = <<>>
            /\ last_probe' = NoOutcome
            /\ UNCHANGED <<err, servers, metadata, client>>
       ELSE /\ pc' = "SelectingServer"
            /\ current_time' = now
            /\ valid_servers' =
                 FallbackValidServers(servers, _load_validation_cache(cacheFile), now)
            /\ UNCHANGED <<err, servers, metadata, cache, idx, invalid_servers,
                           probes, last_probe, client>>
    /\ UNCHANGED <<now, files, network>>

\* validate_all_servers, lines 109-120: the verdict of a fresh record is
\* reused.
PassCached ==
    /\ pc = "PassLoop"
    /\ idx <= Len(servers)
    /\ IsFresh(cache, servers[idx], current_time)
    /\ IF cache[CacheIndex(cache, servers[idx])].valid
       THEN /\ valid_servers' = Append(valid_servers, servers[idx])
            /\ UNCHANGED invalid_servers
       ELSE /\ invalid_servers' = Append(invalid_servers, servers[idx])
            /\ UNCHANGED valid_servers
    /\ idx' = idx + 1
    /\ last_probe' = NoOutcome
    /\ UNCHANGED <<pc, err, now, files, servers, metadata, cache, current_time,
                   probes, client, network, input>>

\* lines 122-123: the probe's request goes out.
PassProbe ==
    /\ pc = "PassLoop"
    /\ idx <= Len(servers)
    /\ ~IsFresh(cache, servers[idx], current_time)
    /\ pc' = "Probing"
    /\ probes' = Append(probes, servers[idx])
    /\ last_probe' = NoOutcome
    /\ UNCHANGED <<err, now, files, manager, cache, current_time, idx,
                   invalid_servers, client, network, input>>

\* lines 123-136: the probe returns and its verdict is recorded.
ProbeReturns(outcome) ==
    /\ pc = "Probing"
    /\ pc' = "PassLoop"
    /\ cache' = CachePut(cache, servers[idx], validate_server(outcome), current_time)
    /\ IF validate_server(outcome)
       THEN /\ valid_servers' = Append(valid_servers, servers[idx])
            /\ UNCHANGED invalid_servers
       ELSE /\ invalid_servers' = Append(invalid_servers, servers[idx])
            /\ UNCHANGED valid_servers
    /\ idx' = idx + 1
    /\ last_probe' = outcome
    /\ UNCHANGED <<err, now, files, servers, metadata, current_time, probes,
                   client, network, input>>

\* lines 138-146 without an invalid server: the cache is written and the
\* pass returns; with one, the pass asks whether to prune.
PassFinish ==
    /\ pc = "PassLoop"
    /\ idx > Len(servers)
    /\ cacheFile' = _save_validation_cache(cache)
    /\ pc' = IF invalid_servers # <<>> THEN "AskPrune" ELSE "SelectingServer"
    /\ last_probe' = NoOutcome
    /\ UNCHANGED <<err, now, serverFile, metaFile, manager, cache, current_time,
                   idx, invalid_servers, probes, client, network, input>>

\* A prune that does not wait for the operator's "y".
PrunedServersUnasked(answer, list, valid) == valid

\* The list self.servers becomes on "y" (line 142).
PrunedServers(answer, list, valid) == IF answer = "y" THEN valid ELSE list

\* lines 141-146.
AnswerPrune(answer) ==
    /\ pc = "AskPrune"
    /\ input' = answer
    /\ pc' = "SelectingServer"
    /\ servers' = PrunedServers(answer, servers, valid_servers)
    /\ serverFile' = IF answer = "y" THEN save_servers(servers') ELSE serverFile
    /\ UNCHANGED <<err, now, cacheFile, metaFile, valid_servers, metadata, pass,
                   client, network>>

\* main line 272 with select_server lines 173-175: no valid server ends
\* the run; otherwise the list is shown and the choice is awaited.
EnterSelectServer ==
    /\ pc = "SelectingServer"
    /\ IF valid_servers = <<>>
       THEN Exit("none")
       ELSE /\ pc' = "ServerPrompt"
            /\ UNCHANGED <<err, manager, pass, client>>
    /\ UNCHANGED <<now, files, network, input>>

\* select_server, lines 191-195: "n<k>" and the note's text.
EditNote(k, note) ==
    /\ pc = "ServerPrompt"
    /\ k \in 1..Len(valid_servers)
    /\ input' = note
    /\ metadata' = set_note(metadata, valid_servers[k], note)
    /\ metaFile' = json_dumps(metadata')
    /\ UNCHANGED <<pc, err, now, serverFile, cacheFile, servers, valid_servers,
                   pass, client, network>>

\* The address select_server stores (lines 197-199).
SelectedBaseUrl(list, k) == WithScheme(list[k])

\* select_server, lines 197-200.
ChooseServer(k) ==
    /\ pc = "ServerPrompt"
    /\ k \in 1..Len(valid_servers)
    /\ input' = ToString(k)
    /\ base_url' = SelectedBaseUrl(valid_servers, k)
    /\ pc' = "SelectingModel"
    /\ UNCHANGED <<err, now, files, manager, pass, selected_model, models, network>>

\* A lookup that is not keyed: the first catalog cached for any server.
CatalogLookupAnyServer(data, url) ==
    IF \E s \in DOMAIN data : get_cached_models(data, s) # <<>>
    THEN get_cached_models(data, CHOOSE s \in DOMAIN data : get_cached_models(data, s) # <<>>)
    ELSE <<>>

\* A lookup that lets a catalog expire as a validation record does.
CatalogLookupExpires(data, url) ==
    LET e == Entry(data, url)
    IN  IF /\ "models_cached_at" \in DOMAIN e
           /\ now - fromisoformat(e["models_cached_at"]) < CACHE_VALIDITY_MINUTES
        THEN get_cached_models(data, url)
        ELSE <<>>

\* The key get_models looks the catalog up under (line 204).
CatalogLookup(data, url) == get_cached_models(data, url)

\* An empty catalog that sends the operator back to the server list.
AfterGetModelsGivesUp(list) == IF list = <<>> THEN "SelectingServer" ELSE "ModelPrompt"

\* A model loop that asks for a model only when none is selected yet.
AfterGetModelsKeepsModel(list) ==
    IF list = <<>> THEN "SelectingModel"
    ELSE IF selected_model # "None" THEN "Prompting"
    ELSE "ModelPrompt"

\* What main does with the list get_models returned: select_model's first
\* lines (221-223) and main's lines 279-282.
AfterGetModels(list) == IF list = <<>> THEN "SelectingModel" ELSE "ModelPrompt"

\* main line 276 and get_models, lines 204-206: a cached catalog that is
\* not empty is returned without a request.
GetModelsCached ==
    /\ pc = "SelectingModel"
    /\ CatalogLookup(metadata, base_url) # <<>>
    /\ models' = CatalogLookup(metadata, base_url)
    /\ pc' = AfterGetModels(models')
    /\ response' = NoResponse
    /\ UNCHANGED <<err, now, files, manager, pass, base_url, selected_model, sent,
                   input>>

\* get_models, lines 208-218: the live fetch and what it comes to.
GetModelsFetch(r) ==
    /\ pc = "SelectingModel"
    /\ CatalogLookup(metadata, base_url) = <<>>
    /\ response' = r
    /\ IF GetModelsRaises(r)
       THEN /\ Exit("get_models")
            /\ UNCHANGED metaFile
       ELSE IF r.status = 200
       THEN /\ metadata' = cache_models(metadata, base_url, FetchedModels(r), now)
            /\ metaFile' = json_dumps(metadata')
            /\ models' = FetchedModels(r)
            /\ pc' = AfterGetModels(models')
            /\ UNCHANGED <<err, servers, valid_servers, pass, base_url, selected_model>>
       ELSE /\ models' = <<>>
            /\ pc' = AfterGetModels(models')
            /\ UNCHANGED <<err, metaFile, manager, pass, base_url, selected_model>>
    /\ UNCHANGED <<now, serverFile, cacheFile, sent, input>>

\* The answers select_model's prompt accepts (line 232).
ModelChoices(list) == {"s"} \cup {ToString(k) : k \in 1..Len(list)}

\* int(choice)
ChoiceIndex(choice, n) == CHOOSE k \in 1..n : ToString(k) = choice

\* select_model, lines 230-239, and main's lines 279-281.
ChooseModel(choice) ==
    /\ pc = "ModelPrompt"
    /\ choice \in ModelChoices(models)
    /\ input' = choice
    /\ IF choice = "s"
       THEN /\ pc' = "SelectingServer"
            /\ UNCHANGED selected_model
       ELSE /\ selected_model' = models[ChoiceIndex(choice, Len(models))].id
            /\ pc' = "Prompting"
    /\ UNCHANGED <<err, now, files, manager, pass, base_url, models, network>>

\* A prompt loop whose "b" leaves for the server list as "s" does.
AfterTokenAlwaysServer(p) == "SelectingServer"

\* Where main goes on a reserved token (lines 287-288 and 294-295).
AfterToken(p) == IF Lower(p) = "s" THEN "SelectingServer" ELSE "SelectingModel"

\* main, lines 286-288 and 294-295: "b" or "s" leaves the prompt loop.
EnterToken(p) ==
    /\ pc = "Prompting"
    /\ Lower(p) \in {"b", "s"}
    /\ input' = p
    /\ pc' = AfterToken(p)
    /\ UNCHANGED <<err, now, files, manager, pass, client, network>>

\* main line 289 and generate, lines 242-255: the request goes out.
EnterPrompt(p) ==
    /\ pc = "Prompting"
    /\ Lower(p) \notin {"b", "s"}
    /\ input' = p
    /\ IF selected_model = "None"
       THEN UNCHANGED <<pc, sent>>
       ELSE /\ sent' = [url |-> base_url, model |-> selected_model, prompt |-> p]
            /\ pc' = "Generating"
    /\ UNCHANGED <<err, now, files, manager, pass, client, response>>

\* generate, lines 256-263: the stream is read to its end, or the
\* transport raises.
GenerateReturns(ok) ==
    /\ pc = "Generating"
    /\ sent' = NoRequest
    /\ IF ok
       THEN /\ pc' = "Prompting"
            /\ UNCHANGED <<err, manager, pass, client>>
       ELSE Exit("generate")
    /\ UNCHANGED <<now, files, response, input>>

\* KeyboardInterrupt, or the process is killed, while it waits.
Interrupt ==
    /\ pc \notin {"start", "stopped"}
    /\ Exit("interrupt")
    /\ sent' = NoRequest
    /\ UNCHANGED <<now, files, response, input>>

\* Time passes.
Tick ==
    /\ pc # "stopped"
    /\ \E t \in TimePoints : t > now /\ now' = t
    /\ UNCHANGED <<pc, err, files, manager, pass, client, network, input>>

Next ==
    \/ Startup
    \/ \E answer \in {"y", "n"} : AnswerValidate(answer)
    \/ PassCached
    \/ PassProbe
    \/ \E outcome \in ProbeOutcomes : ProbeReturns(outcome)
    \/ PassFinish
    \/ \E answer \in {"y", "n"} : AnswerPrune(answer)
    \/ EnterSelectServer
    \/ \E k \in 1..MaxLines, note \in Notes : EditNote(k, note)
    \/ \E k \in 1..MaxLines : ChooseServer(k)
    \/ GetModelsCached
    \/ \E r \in CatalogResponses(base_url) : GetModelsFetch(r)
    \/ \E choice \in ModelChoices(models) : ChooseModel(choice)
    \/ \E p \in Prompts : EnterToken(p)
    \/ \E p \in Prompts : EnterPrompt(p)
    \/ \E ok \in BOOLEAN : GenerateReturns(ok)
    \/ Interrupt
    \/ Tick

Spec == Init /\ [][Next]_vars

\* main's model loop (lines 275-282) waits for nobody: get_models is called
\* on entry and again at once after an empty list, and its request returns
\* or raises.
GetModels ==
    \/ GetModelsCached
    \/ \E r \in CatalogResponses(base_url) : GetModelsFetch(r)

\* The runs in which get_models, whenever it is due, is run.
FairSpec == Spec /\ WF_vars(GetModels)

(***************************************************************************)
(* Properties.                                                             *)
(***************************************************************************)
Range(q) == {q[k] : k \in 1..Len(q)}

InPass == pc \in {"PassLoop", "Probing"}

\* The run has answered the validation question with "n": it is past the
\* question and no pass has started.
Declined == pc \notin {"start", "stopped", "AskValidate"} /\ idx = 0

\* The records in the validation cache file, as the last run left them.
PersistedRecords == _load_validation_cache(cacheFile)

HasRecord(a) == CacheIndex(PersistedRecords, a) # 0

RecordOf(a) == PersistedRecords[CacheIndex(PersistedRecords, a)]

\* The age, at clock reading t, of the persisted record of address a.
Age(a, t) == t - RecordOf(a).timestamp

\* During a validation pass the persisted cache is still the one the pass
\* started from, and current_time is the clock reading of its start.
FreshAtStart(a) == HasRecord(a) /\ Age(a, current_time) < CACHE_VALIDITY_MINUTES

\* C1: in a validation pass no address whose record was fresh at the start
\* of the pass has been probed, and every address the loop has passed whose
\* record was absent or stale at the start has been probed.
ProbesOnlyStale ==
    InPass =>
        /\ \A a \in Range(probes) : ~FreshAtStart(a)
        /\ \A k \in 1..(idx - 1) :
               ~FreshAtStart(servers[k]) => servers[k] \in Range(probes)

\* C1 witness: a pass at its end that reused one verdict and probed for
\* another.
ProbesOnlyStaleWitness ==
    /\ pc = "PassLoop"
    /\ idx > Len(servers)
    /\ probes # <<>>
    /\ \E k \in 1..Len(servers) : FreshAtStart(servers[k])

\* C2 (as claimed): after the operator declines validation every address of
\* the valid set has a persisted record that is fresh and marked reachable.
DeclinedKeepsOnlyTrusted ==
    Declined =>
        \A a \in Range(valid_servers) :
            /\ HasRecord(a)
            /\ RecordOf(a).valid
            /\ Age(a, current_time) < CACHE_VALIDITY_MINUTES

\* q is p with some elements left out, the others in their order.
RECURSIVE IsSubsequence(_, _)
IsSubsequence(q, p) ==
    IF q = <<>> THEN TRUE
    ELSE IF p = <<>> THEN FALSE
    ELSE IF Head(q) = Head(p) THEN IsSubsequence(Tail(q), Tail(p))
    ELSE IsSubsequence(q, Tail(p))

\* C3: a step of the validation pass leaves self.servers and the server
\* list file alone, except the answer "y" to the prune question: then
\* self.servers is exactly valid_servers, a subsequence of the old list, and
\* the file reads back as that list.
PruneAllOrNothing ==
    [][(InPass \/ pc = "AskPrune") =>
          IF pc = "AskPrune" /\ pc' = "SelectingServer" /\ input' = "y"
          THEN /\ servers' = valid_servers
               /\ valid_servers' = valid_servers
               /\ IsSubsequence(servers', servers)
               /\ load_servers(serverFile') = servers'
          ELSE /\ serverFile' = serverFile
               /\ pc' # "stopped" => servers' = servers]_vars

\* C3 witness: the prune was accepted and dropped an address, keeping one.
PruneAllOrNothingWitness ==
    /\ pc = "SelectingServer"
    /\ input = "y"
    /\ invalid_servers # <<>>
    /\ servers = valid_servers
    /\ servers # <<>>
    /\ load_servers(serverFile) = servers

\* C4: from Prompting, "b" leads to SelectingModel with base_url unchanged
\* and "s" leads to SelectingServer.
TokensFromPrompting ==
    [][pc = "Prompting" =>
          /\ input' = "b" => (pc' = "SelectingModel" /\ base_url' = base_url)
          /\ input' = "s" => pc' = "SelectingServer"]_vars

\* C4 witness: "b" was entered at the prompt of a selected model.
TokensFromPromptingWitness ==
    /\ pc = "SelectingModel"
    /\ input = "b"
    /\ selected_model # "None"
    /\ base_url # NoAddr

\* The addresses whose probe has returned in the current pass.
CompletedProbes ==
    IF pc = "Probing" THEN Range(SubSeq(probes, 1, Len(probes) - 1)) ELSE Range(probes)

\* The persisted cache holds the in-memory record of address a.
Persisted(file, a) ==
    /\ CacheIndex(cache, a) # 0
    /\ \E k \in 1..Len(file.rows) :
          file.rows[k] = [server |-> a,
                          valid |-> BoolText(cache[CacheIndex(cache, a)].valid),
                          timestamp |-> isoformat(cache[CacheIndex(cache, a)].timestamp)]

\* C5 (as claimed): at every point of a validation pass the persisted cache
\* holds the record of every address whose probe has returned.
WriteThroughDuringPass ==
    InPass => \A a \in CompletedProbes : Persisted(cacheFile, a)

\* C5 (amended): the cache file is written once, when the loop has ended:
\* until then the file is as the pass found it, and that write stores the
\* record of every address probed in the pass.
WrittenOnceAfterLoop ==
    [][InPass =>
          IF pc' \in {"AskPrune", "SelectingServer"}
          THEN \A a \in Range(probes) : Persisted(cacheFile', a)
          ELSE cacheFile' = cacheFile]_vars

\* C5 witness: the loop has ended after two probes, one of them of an
\* unreachable server, and the file holds both records.
WrittenOnceAfterLoopWitness ==
    /\ pc = "AskPrune"
    /\ Len(probes) = 2
    /\ \A a \in Range(probes) : Persisted(cacheFile, a)

\* C6 (as claimed): no run ends in an error of loading the validation cache
\* or the metadata.
LoadNeverFails == err \notin {"load_validation_cache", "load_metadata"}

\* A catalog fetch that failed: no response, a status other than 2xx, or a
\* body that is not a document with a data field.
FailedFetch(r) ==
    \/ r.kind \in {"error", "timeout"}
    \/ r.kind = "response" /\ r.status \notin 200..299
    \/ r.kind = "response" /\ r.body \in {"malformed", "nodata"}

\* The run was ended by the operator, not by an error.
Interrupted == pc = "stopped" /\ err = "interrupt"

\* C7 (as claimed): after a failed catalog fetch the machine is in
\* SelectingModel with an empty catalog, unless the operator ended the run.
FailedFetchRetries ==
    FailedFetch(response) =>
        \/ pc = "SelectingModel" /\ models = <<>> /\ err = "none"
        \/ Interrupted

\* C8: freshness is a strict inequality.  In a pass, an address with a
\* record is probed if and only if the record is 30 minutes old or older;
\* after the declined validation, an address with a record is in the valid
\* set if and only if the record is marked reachable and younger than 30
\* minutes.
FreshnessIsStrict ==
    /\ InPass =>
          \A k \in 1..(idx - 1) :
              HasRecord(servers[k]) =>
                  (servers[k] \in Range(probes)
                      <=> Age(servers[k], current_time) >= 30)
    /\ Declined =>
          \A a \in Range(servers) :
              HasRecord(a) =>
                  (a \in Range(valid_servers)
                      <=> (RecordOf(a).valid /\ Age(a, current_time) < 30))

\* C8 witness: validation was declined with a reachable record exactly 30
\* minutes old, and its address is not in the valid set.
FreshnessIsStrictWitness ==
    /\ Declined
    /\ \E a \in Range(servers) :
          /\ HasRecord(a)
          /\ RecordOf(a).valid
          /\ Age(a, current_time) = 30
          /\ a \notin Range(valid_servers)

\* The ids of a list of models.
Ids(list) == {list[k].id : k \in 1..Len(list)}

\* C9: the models offered are the catalog stored under base_url and are
\* models of that server; base_url is set by the choice of a server, to the
\* address chosen, and by nothing else while the run lasts.
CatalogOfSelectedServer ==
    /\ [](pc = "ModelPrompt" =>
            /\ models = get_cached_models(metadata, base_url)
            /\ Ids(models) \subseteq Ids(ServerModels(base_url)))
    /\ [][IF pc = "ServerPrompt" /\ pc' = "SelectingModel"
          THEN \E k \in 1..Len(valid_servers) :
                  /\ input' = ToString(k)
                  /\ base_url' = WithScheme(valid_servers[k])
          ELSE pc' # "stopped" => base_url' = base_url]_vars

\* C9 witness: the models of server b are offered while a catalog of
\* server a, selected earlier, is cached.
CatalogOfSelectedServerWitness ==
    /\ pc = "ModelPrompt"
    /\ base_url = AddrB
    /\ get_cached_models(metadata, WithScheme(AddrA)) # <<>>

\* A catalog fetch that returned and yielded no model.
ZeroModels(r) ==
    /\ r.kind = "response"
    /\ \/ r.status # 200
       \/ r.body = "nodata"
       \/ r.body = "data" /\ r.data = <<>>

\* C10: after a fetch that yielded zero models the machine is in
\* SelectingModel, unless the operator ended the run.
ZeroModelsRetries ==
    ZeroModels(response) =>
        \/ pc = "SelectingModel" /\ err = "none"
        \/ Interrupted

\* C10 witness: the server answered 200 with an empty data list.
ZeroModelsRetriesWitness ==
    /\ pc = "SelectingModel"
    /\ response.status = 200
    /\ response.body = "data"
    /\ response.data = <<>>
    /\ get_cached_models(metadata, base_url) = <<>>

\* A step in which get_models runs: the process is at SelectingModel and the
\* step is neither the clock's nor the operator's interrupt.
GetModelsStep == pc = "SelectingModel" /\ now' = now /\ err' # "interrupt"

\* C11: a catalog has no expiry.  When get_models runs with a catalog that
\* is not empty cached for the selected server, the catalog is returned as
\* cached, no request goes out and the store is left alone, whatever the
\* clock reads; a request goes out only when the cached catalog is empty or
\* absent.
CatalogNeverExpires ==
    [][GetModelsStep =>
          IF get_cached_models(metadata, base_url) # <<>>
          THEN /\ response' = NoResponse
               /\ models' = get_cached_models(metadata, base_url)
               /\ pc' = "ModelPrompt"
               /\ metadata' = metadata
               /\ metaFile' = metaFile
          ELSE response' # NoResponse]_vars

\* C11 witness: a catalog cached at minute 0 is offered at minute 30 and no
\* request was sent for it.
CatalogNeverExpiresWitness ==
    /\ pc = "ModelPrompt"
    /\ response = NoResponse
    /\ now = CACHE_VALIDITY_MINUTES
    /\ Entry(metadata, base_url)["models_cached_at"] = isoformat(0)
    /\ models = get_cached_models(metadata, base_url)

\* The addresses a note or a catalog can be asked for.
Addresses == {AddrA, WithScheme(AddrA), AddrB, NoAddr}

\* A ServerMetadata object is in memory.
Running == pc \notin {"start", "stopped"}

\* C12: the metadata store is write-through.  While the process runs, a
\* store loaded from the file answers get_note and get_cached_models, for
\* every address, as the store in memory does; an address without a note
\* has the note "" and one without a catalog the empty list.
MetadataRoundTrips ==
    Running =>
        /\ ~LoadMetadataRaises(metaFile)
        /\ \A a \in Addresses :
              /\ get_note(_load_metadata(metaFile), a) = get_note(metadata, a)
              /\ get_cached_models(_load_metadata(metaFile), a)
                     = get_cached_models(metadata, a)
              /\ "note" \notin DOMAIN Entry(metadata, a) => get_note(metadata, a) = ""
              /\ "models" \notin DOMAIN Entry(metadata, a)
                     => get_cached_models(metadata, a) = <<>>

\* C12 witness: a note was set for one address and a catalog cached for
\* another, and the file holds both.
MetadataRoundTripsWitness ==
    /\ Running
    /\ get_note(_load_metadata(metaFile), AddrA) = "fast"
    /\ get_cached_models(_load_metadata(metaFile), AddrB) = ServerModels(AddrB)
    /\ get_note(metadata, AddrB) = ""
    /\ get_cached_models(metadata, AddrA) = <<>>

\* The verdict the current pass holds for an address: the one of its cached
\* record, reused or written by the probe.
Verdict(a) == CacheIndex(cache, a) # 0 /\ cache[CacheIndex(cache, a)].valid

\* The part of self.servers the loop of the pass has dealt with.
Passed == SubSeq(servers, 1, idx - 1)

\* C13: valid_servers is always a subsequence of self.servers; in a pass,
\* up to its return, valid_servers is the addresses dealt with whose verdict
\* is reachable, in the order of self.servers, and invalid_servers is the
\* others.
PassPartitionsServers ==
    /\ IsSubsequence(valid_servers, servers)
    /\ (InPass \/ pc = "AskPrune") =>
          /\ valid_servers = SelectSeq(Passed, LAMBDA a : Verdict(a))
          /\ invalid_servers = SelectSeq(Passed, LAMBDA a : ~Verdict(a))
          /\ pc = "AskPrune" => Passed = servers

\* C13 witness: a pass has ended with a reachable address listed after an
\* unreachable one, one verdict reused and one probed.
PassPartitionsServersWitness ==
    /\ pc = "AskPrune"
    /\ Len(servers) = 2
    /\ invalid_servers = <<servers[1]>>
    /\ valid_servers = <<servers[2]>>
    /\ Len(probes) = 1

\* A pass of this run is past its probing loop.
PassWritten == idx > 0 /\ ~InPass

\* The rows of the cache file that name address a.
RowsOf(a) == {k \in 1..Len(cacheFile.rows) : cacheFile.rows[k].server = a}

\* C14: once a pass is past its loop, the cache file reads back, without an
\* error, as exactly the records the pass holds in memory; for every address
\* probed in the pass it holds one row, with the verdict of the probe and
\* the clock reading of the pass, whatever row the address had before.
CacheReadsBackAsWritten ==
    PassWritten =>
        /\ ~LoadValidationCacheRaises(cacheFile)
        /\ _load_validation_cache(cacheFile) = cache
        /\ \A a \in Range(probes) :
              /\ Cardinality(RowsOf(a)) = 1
              /\ RecordOf(a).timestamp = current_time
              /\ RecordOf(a).valid <=> a \in Range(valid_servers)
              /\ ~RecordOf(a).valid <=> a \in Range(invalid_servers)

\* C14 witness: both addresses had records, found stale at minute 30; the
\* pass probed them in the order of the list, the other way round than the
\* file had them, and the file holds the two new records in the old rows'
\* places.
CacheReadsBackAsWrittenWitness ==
    /\ PassWritten
    /\ probes = <<AddrB, AddrA>>
    /\ current_time = CACHE_VALIDITY_MINUTES
    /\ Len(cacheFile.rows) = 2
    /\ cacheFile.rows[1].server = AddrA
    /\ RecordOf(AddrA).timestamp = CACHE_VALIDITY_MINUTES
    /\ ~RecordOf(AddrB).valid

\* A step in which generate returns or raises: a request is in flight and
\* the step is neither the clock's nor the operator's interrupt.
GenerateStep == pc = "Generating" /\ now' = now /\ err' # "interrupt"

\* C15 (as claimed): no request is dispatched with "b" or "s" as its prompt,
\* and a prompt that was dispatched is followed by Prompting with the same
\* server and model.
DispatchedPromptReturns ==
    /\ [](sent.prompt \notin {"b", "s"})
    /\ [][GenerateStep =>
             /\ pc' = "Prompting"
             /\ sent' = NoRequest
             /\ base_url' = base_url
             /\ selected_model' = selected_model]_vars

\* The address whose probe has just returned.
Probed == servers[idx - 1]

\* C16 (as claimed): the probe's verdict is reachable if and only if the
\* request completed with a status of the 2xx class.
ReachableIff2xx ==
    last_probe # NoOutcome =>
        (Verdict(Probed)
            <=> (last_probe.kind = "response" /\ last_probe.status \in 200..299))

\* C16 (amended): the probe's verdict is reachable if and only if the
\* request completed with status 200; whatever the request came to, the
\* probe returned, the verdict was recorded and the pass goes on.
ReachableIff200 ==
    last_probe # NoOutcome =>
        /\ pc = "PassLoop"
        /\ err = "none"
        /\ Verdict(Probed)
              <=> (last_probe.kind = "response" /\ last_probe.status = 200)
        /\ Verdict(Probed) <=> Probed \in Range(valid_servers)
        /\ ~Verdict(Probed) <=> Probed \in Range(invalid_servers)

\* C16 witness: the request completed with status 204 and the server was
\* recorded as unreachable.
ReachableIff200Witness ==
    /\ last_probe = [kind |-> "response", status |-> 204]
    /\ ~Verdict(Probed)
    /\ Probed \in Range(invalid_servers)

\* C17 (as claimed): whenever the machine is in SelectingModel, the operator
\* is eventually given the prompt of the model list, at which "s" is
\* accepted, unless the run has ended.
ModelPromptReached ==
    [](pc = "SelectingModel" => <>(pc \in {"ModelPrompt", "stopped"}))

\* C18 (as claimed): the store holds one record per server: no two of its
\* keys are addresses of the same server, so a server's note and catalog
\* are fields of one record.
OneRecordPerServer ==
    \A x, y \in DOMAIN metadata : WithScheme(x) = WithScheme(y) => x = y

\* C19: at the prompt, and while a request is in flight, selected_model is
\* the id of an entry of the catalog cached for base_url, a model of that
\* server, and the request names that server and model.
SelectedModelOfServer ==
    pc \in {"Prompting", "Generating"} =>
        /\ selected_model \in Ids(get_cached_models(metadata, base_url))
        /\ selected_model \in Ids(ServerModels(base_url))
        /\ pc = "Generating" => sent.url = base_url /\ sent.model = selected_model

\* C19 witness: the prompt of a model of server b, reached after server a's
\* catalog was fetched and the operator went back to the server list.
SelectedModelOfServerWitness ==
    /\ pc = "Prompting"
    /\ base_url = AddrB
    /\ selected_model = "b1"
    /\ get_cached_models(metadata, WithScheme(AddrA)) # <<>>
    /\ input = "1"

\* The record a cache file holds for address a.
RecordIn(file, a) ==
    LET c == _load_validation_cache(file) IN c[CacheIndex(c, a)]

\* The steps of a pass: a fresh verdict is reused, a probe returns, the
\* loop is left.
ReuseStep == pc = "PassLoop" /\ pc' = "PassLoop" /\ idx' = idx + 1

ProbeReturnStep == pc = "Probing" /\ pc' = "PassLoop"

FinishStep == pc = "PassLoop" /\ pc' \in {"AskPrune", "SelectingServer"}

\* C20 (as claimed): no verdict is reused 30 minutes or more after the
\* probe that produced it.  The records a run starts from carry minute 0,
\* the minute the run starts at, so their probes completed at minute 0.
ReusedWithinWindow ==
    [][ReuseStep /\ servers[idx] \notin Range(probes) =>
          now - cache[CacheIndex(cache, servers[idx])].timestamp
              < CACHE_VALIDITY_MINUTES]_vars

\* C20 (amended): a reuse leaves the records alone, in memory and, when the
\* pass writes the file, there; a probe's record carries the clock reading
\* of the start of the pass, which is not later than the probe's return;
\* and the record reused is younger than 30 minutes at the start of the
\* pass.
ReuseKeepsRecord ==
    [][/\ ReuseStep =>
             /\ cache' = cache
             /\ cacheFile' = cacheFile
             /\ current_time - cache[CacheIndex(cache, servers[idx])].timestamp
                    < CACHE_VALIDITY_MINUTES
       /\ ProbeReturnStep =>
             /\ cache'[CacheIndex(cache', servers[idx])].timestamp = current_time
             /\ current_time <= now'
       /\ FinishStep =>
             \A a \in Range(servers) \ Range(probes) :
                 RecordIn(cacheFile', a) = RecordIn(cacheFile, a)]_vars

\* C20 witness: a pass that started at minute 29 has probed one server and
\* then, at minute 30, reused the record of minute 0 of the other.
ReuseKeepsRecordWitness ==
    /\ pc = "PassLoop"
    /\ idx = 3
    /\ Len(probes) = 1
    /\ servers[2] \notin Range(probes)
    /\ current_time = CACHE_VALIDITY_MINUTES - 1
    /\ now = CACHE_VALIDITY_MINUTES
    /\ RecordOf(servers[2]).timestamp = 0
    /\ cache[CacheIndex(cache, servers[2])] = RecordOf(servers[2])
====
